---- MODULE Spec2Model ----
(***************************************************************************)
(* PDF_Validator backend: the POST /api/validate handler, validateWithLLM  *)
(* and extractJSON of the Groq server, as a state machine over requests.   *)
(* Strings are TLA+ strings (Len, SubSeq and \o act on their characters);  *)
(* JavaScript values are tagged records.                                   *)
(***************************************************************************)
EXTENDS Integers, Sequences, FiniteSets, TLC

(***************************************************************************)
(* JavaScript string primitives                                            *)
(***************************************************************************)
Min2(a, b) == IF a < b THEN a ELSE b
Max2(a, b) == IF a > b THEN a ELSE b

CharAt(s, i) == SubSeq(s, i, i)

\* String.prototype.substring(a, b), 0-based, end exclusive
JsSubstring(s, a, b) == SubSeq(s, Min2(a, Len(s)) + 1, Min2(b, Len(s)))

WhiteSpace == {" ", "\n", "\t", "\r", "\f"}

\* first index >= i of s whose character is not in the set cs (Len(s)+1 when
\* there is none)
SkipChars(s, i, cs) ==
  IF i > Len(s) THEN i
  ELSE CHOOSE j \in i..(Len(s) + 1) :
         /\ j = Len(s) + 1 \/ CharAt(s, j) \notin cs
         /\ \A k \in i..(j - 1) : CharAt(s, k) \in cs

\* first index >= i of s whose character is in the set cs (0 when none)
FindChars(s, i, cs) ==
  IF \E j \in i..Len(s) : CharAt(s, j) \in cs
  THEN CHOOSE j \in i..Len(s) :
         /\ CharAt(s, j) \in cs
         /\ \A k \in i..(j - 1) : CharAt(s, k) \notin cs
  ELSE 0

\* first index >= i of s that is not white space (Len(s)+1 when none)
SkipWs(s, i) == SkipChars(s, i, WhiteSpace)

\* last index <= i of s that is not white space (0 when none)
SkipWsBack(s, i) ==
  IF \E j \in 1..i : CharAt(s, j) \notin WhiteSpace
  THEN CHOOSE j \in 1..i :
         /\ CharAt(s, j) \notin WhiteSpace
         /\ \A k \in (j + 1)..i : CharAt(s, k) \in WhiteSpace
  ELSE 0

\* String.prototype.trim
JsTrim(s) == SubSeq(s, SkipWs(s, 1), SkipWsBack(s, Len(s)))

UpperCase == "ABCDEFGHIJKLMNOPQRSTUVWXYZ"
LowerCase == "abcdefghijklmnopqrstuvwxyz"
UpperSet == {CharAt(UpperCase, k) : k \in 1..26}
LowerOf ==
  [c \in UpperSet |-> CharAt(LowerCase, CHOOSE k \in 1..26 : CharAt(UpperCase, k) = c)]

LowerChar(c) == IF c \in UpperSet THEN LowerOf[c] ELSE c

RECURSIVE LowerRange(_, _, _)
\* the characters lo..hi of s in lower case, by halves
LowerRange(s, lo, hi) ==
  IF lo > hi THEN ""
  ELSE IF lo = hi THEN LowerChar(CharAt(s, lo))
  ELSE LowerRange(s, lo, (lo + hi) \div 2)
         \o LowerRange(s, ((lo + hi) \div 2) + 1, hi)

\* String.prototype.toLowerCase
JsToLowerCase(s) == LowerRange(s, 1, Len(s))

\* s has pat at 1-based index i (folding the case of s when ci)
MatchAt(s, i, pat, ci) ==
  /\ i >= 1
  /\ i + Len(pat) - 1 <= Len(s)
  /\ \A k \in 1..Len(pat) :
       (IF ci THEN LowerChar(CharAt(s, i + k - 1)) ELSE CharAt(s, i + k - 1))
         = CharAt(pat, k)

\* first index >= i at which s has pat (0 when none)
IndexFrom(s, pat, i, ci) ==
  IF \E j \in i..Len(s) : MatchAt(s, j, pat, ci)
  THEN CHOOSE j \in i..Len(s) :
         /\ MatchAt(s, j, pat, ci)
         /\ \A k \in i..(j - 1) : ~MatchAt(s, k, pat, ci)
  ELSE 0

\* last index at which s has pat (0 when none)
IndexBack(s, pat) ==
  IF \E j \in 1..Len(s) : MatchAt(s, j, pat, FALSE)
  THEN CHOOSE j \in 1..Len(s) :
         /\ MatchAt(s, j, pat, FALSE)
         /\ \A k \in (j + 1)..Len(s) : ~MatchAt(s, k, pat, FALSE)
  ELSE 0

\* String.prototype.indexOf / lastIndexOf, 0-based, -1 when absent
JsIndexOf(s, pat) == IndexFrom(s, pat, 1, FALSE) - 1

JsLastIndexOf(s, pat) == IndexBack(s, pat) - 1

\* String.prototype.includes
JsIncludes(s, pat) == JsIndexOf(s, pat) # -1

RECURSIVE RemoveFrom(_, _, _, _)
\* s from index i on without the matches of pat and the white space after
\* each: one step per match
RemoveFrom(s, i, pat, ci) ==
  IF IndexFrom(s, pat, i, ci) = 0 THEN SubSeq(s, i, Len(s))
  ELSE SubSeq(s, i, IndexFrom(s, pat, i, ci) - 1)
         \o RemoveFrom(s, SkipWs(s, IndexFrom(s, pat, i, ci) + Len(pat)),
                       pat, ci)

\* s.replace(/<pat>\s*/g, '') (flag i when ci): every match, left to right
RemovePatternWs(s, pat, ci) == RemoveFrom(s, 1, pat, ci)

(***************************************************************************)
(* extractJSON (part_000:50-67)                                            *)
(***************************************************************************)
\* The grave accent cannot be written inside a TLA+ string: the strings of this
\* module write it as "^", which stands for nothing else in them.
BackTick == "^"
Fence == BackTick \o BackTick \o BackTick

\* an extractJSON that removes the fences and leaves the word after them
StripFencesKeepWord(text) == JsTrim(RemovePatternWs(text, Fence, FALSE))

StripFences(text) ==
  JsTrim(RemovePatternWs(RemovePatternWs(text, Fence \o "json", TRUE),
                         Fence, FALSE))

\* lines 59-63: the slice between the first "{" and the last "}", trimmed
SliceObject(t, jsonStart, jsonEnd) ==
  IF jsonStart # -1 /\ jsonEnd # -1 /\ jsonEnd > jsonStart
  THEN JsTrim(JsSubstring(t, jsonStart, jsonEnd + 1))
  ELSE JsTrim(t)

\* lines 56-57 on the text without its fences
LocateObject(t) == SliceObject(t, JsIndexOf(t, "{"), JsLastIndexOf(t, "}"))

extractJSON(text) == LocateObject(StripFences(text))

(***************************************************************************)
(* JavaScript values and JSON.parse                                        *)
(* A value is a record tagged by t: "undef", "null", "bool", "num", "str", *)
(* "obj" (v: function from keys to values), "arr" (v: sequence of values), *)
(* "big" (a number of more than 9 digits). Number lexemes are integers     *)
(* with an optional exponent; string lexemes carry no escapes.             *)
(***************************************************************************)
Undefined == [t |-> "undef"]
JsNull    == [t |-> "null"]
JsBool(b) == [t |-> "bool", v |-> b]
JsNum(n)  == [t |-> "num", v |-> n]
JsStr(s)  == [t |-> "str", v |-> s]
JsObj(f)  == [t |-> "obj", v |-> f]
JsArr(q)  == [t |-> "arr", v |-> q]

Digits == "0123456789"
DigitSet == {CharAt(Digits, k) : k \in 1..10}
DigitOf == [c \in DigitSet |-> (CHOOSE k \in 1..10 : CharAt(Digits, k) = c) - 1]
IsDigit(c) == c \in DigitSet
DigitVal(c) == DigitOf[c]

RECURSIVE NatToStr(_)
NatToStr(n) ==
  IF n < 10 THEN CharAt(Digits, n + 1)
  ELSE NatToStr(n \div 10) \o CharAt(Digits, (n % 10) + 1)

\* Number.prototype.toString for an integer
IntToStr(n) == IF n < 0 THEN "-" \o NatToStr(0 - n) ELSE NatToStr(n)

JsonWs == {" ", "\n", "\t", "\r"}

SkipJsonWs(s, i) == SkipChars(s, i, JsonWs)

\* the SyntaxError JSON.parse throws at 1-based index p of s (the wording of
\* the message is that of Node 18)
ParseFail(s, p) ==
  [ok |-> FALSE, val |-> Undefined, pos |-> p,
   msg |-> IF p > Len(s) THEN "Unexpected end of JSON input"
           ELSE "Unexpected token " \o CharAt(s, p)
                  \o " in JSON at position " \o NatToStr(p - 1)]

ParseOk(v, p) == [ok |-> TRUE, val |-> v, pos |-> p, msg |-> ""]

StringStops == {"\"", "\\", "\n", "\t", "\r", "\f"}

\* index of the closing quote of the string whose body starts at i, or the
\* negated index of the character that ends the scan in error
StringEnd(s, i) ==
  IF FindChars(s, i, StringStops) = 0 THEN 0 - (Len(s) + 1)
  ELSE IF CharAt(s, FindChars(s, i, StringStops)) = "\""
       THEN FindChars(s, i, StringStops)
  ELSE 0 - FindChars(s, i, StringStops)

ParseString(s, p) ==
  LET e == StringEnd(s, p + 1)
  IN  IF e > 0 THEN ParseOk(JsStr(SubSeq(s, p + 1, e - 1)), e + 1)
      ELSE ParseFail(s, 0 - e)

\* first index >= i of s that is not a digit
DigitsEnd(s, i) == SkipChars(s, i, DigitSet)

RECURSIVE DigitsValue(_, _, _)
DigitsValue(s, i, e) ==
  IF e <= i THEN 0
  ELSE DigitsValue(s, i, e - 1) * 10 + DigitVal(CharAt(s, e - 1))

RECURSIVE Pow10(_)
Pow10(x) == IF x = 0 THEN 1 ELSE 10 * Pow10(x - 1)

RECURSIVE Zeros(_)
Zeros(n) == IF n <= 0 THEN "" ELSE "0" \o Zeros(n - 1)

\* a number of more than 9 decimal digits is held as its significant digits
\* and the position of its decimal point
JsBig(neg, digits, point) ==
  [t |-> "big", neg |-> neg, digits |-> digits, point |-> point]

\* last index in z..(e - 1) of s that is not "0", given that s[z] is not "0"
LastNonZero(s, z, e) ==
  CHOOSE j \in z..(e - 1) :
    /\ CharAt(s, j) # "0"
    /\ \A k \in (j + 1)..(e - 1) : CharAt(s, k) = "0"

\* the number whose digits are s[z..e-1], the first of them not "0", times 10^x
NumberFrom(neg, s, z, e, x) ==
  IF z >= e THEN JsNum(0)
  ELSE IF (e - z) + x <= 9
       THEN JsNum((IF neg THEN 0 - 1 ELSE 1) * DigitsValue(s, z, e) * Pow10(x))
  ELSE JsBig(neg, SubSeq(s, z, LastNonZero(s, z, e)), (e - z) + x)

\* the number whose digits are s[d..e-1], times 10^x
MakeNumber(neg, s, d, e, x) ==
  NumberFrom(neg, s, Min2(SkipChars(s, d, {"0"}), e), e, x)

\* the exponent part of a number lexeme: s[e] is "e" or "E", xs is the index
\* after the optional sign. A negative exponent is outside the model (no
\* reply of the model carries one).
ExponentDigits(s, neg, d, e, xs, xe) ==
  IF xe = xs THEN ParseFail(s, xs)
  ELSE IF CharAt(s, e + 1) = "-" THEN ParseFail(s, e + 1)
  ELSE ParseOk(MakeNumber(neg, s, d, e, DigitsValue(s, xs, xe)), xe)

ParseExponent(s, neg, d, e, xs) ==
  ExponentDigits(s, neg, d, e, xs, DigitsEnd(s, xs))

\* a number lexeme: an integer, then an optional exponent. A fraction is
\* outside the model (no reply of the model carries one).
NumberLexeme(s, neg, d, e) ==
  IF e = d THEN ParseFail(s, d)
  ELSE IF CharAt(s, d) = "0" /\ e > d + 1 THEN ParseFail(s, d + 1)
  ELSE IF e <= Len(s) /\ CharAt(s, e) = "." THEN ParseFail(s, e)
  ELSE IF e <= Len(s) /\ CharAt(s, e) \in {"e", "E"}
       THEN ParseExponent(s, neg, d, e,
                          IF e + 1 <= Len(s) /\ CharAt(s, e + 1) \in {"+", "-"}
                          THEN e + 2 ELSE e + 1)
  ELSE ParseOk(MakeNumber(neg, s, d, e, 0), e)

ParseNumber(s, p) ==
  IF CharAt(s, p) = "-" THEN NumberLexeme(s, TRUE, p + 1, DigitsEnd(s, p + 1))
  ELSE NumberLexeme(s, FALSE, p, DigitsEnd(s, p))

EmptyObject == [k \in {} |-> Undefined]

PutKey(o, key, val) ==
  [k \in DOMAIN o \cup {key} |-> IF k = key THEN val ELSE o[k]]

RECURSIVE ParseValue(_, _)
RECURSIVE ParseMembers(_, _, _)
RECURSIVE ParseElements(_, _, _)

ParseMembers(s, i, acc) ==
  LET p == SkipJsonWs(s, i)
  IN  IF p > Len(s) \/ CharAt(s, p) # "\"" THEN ParseFail(s, p)
      ELSE
        LET k == ParseString(s, p)
        IN  IF ~k.ok THEN k
            ELSE
              LET c == SkipJsonWs(s, k.pos)
              IN  IF c > Len(s) \/ CharAt(s, c) # ":" THEN ParseFail(s, c)
                  ELSE
                    LET v == ParseValue(s, c + 1)
                    IN  IF ~v.ok THEN v
                        ELSE
                          LET n == SkipJsonWs(s, v.pos)
                              o == PutKey(acc, k.val.v, v.val)
                          IN  IF n > Len(s) THEN ParseFail(s, n)
                              ELSE IF CharAt(s, n) = ","
                                   THEN ParseMembers(s, n + 1, o)
                              ELSE IF CharAt(s, n) = "}"
                                   THEN ParseOk(JsObj(o), n + 1)
                              ELSE ParseFail(s, n)

ParseElements(s, i, acc) ==
  LET v == ParseValue(s, i)
  IN  IF ~v.ok THEN v
      ELSE
        LET n == SkipJsonWs(s, v.pos)
            q == Append(acc, v.val)
        IN  IF n > Len(s) THEN ParseFail(s, n)
            ELSE IF CharAt(s, n) = "," THEN ParseElements(s, n + 1, q)
            ELSE IF CharAt(s, n) = "]" THEN ParseOk(JsArr(q), n + 1)
            ELSE ParseFail(s, n)

ParseValue(s, i) ==
  LET p == SkipJsonWs(s, i)
      c == CharAt(s, p)
  IN  IF p > Len(s) THEN ParseFail(s, p)
      ELSE IF c = "{"
           THEN LET q == SkipJsonWs(s, p + 1)
                IN  IF q <= Len(s) /\ CharAt(s, q) = "}"
                    THEN ParseOk(JsObj(EmptyObject), q + 1)
                    ELSE ParseMembers(s, q, EmptyObject)
      ELSE IF c = "["
           THEN LET q == SkipJsonWs(s, p + 1)
                IN  IF q <= Len(s) /\ CharAt(s, q) = "]"
                    THEN ParseOk(JsArr(<< >>), q + 1)
                    ELSE ParseElements(s, q, << >>)
      ELSE IF c = "\"" THEN ParseString(s, p)
      ELSE IF c = "-" \/ IsDigit(c) THEN ParseNumber(s, p)
      ELSE IF MatchAt(s, p, "true", FALSE) THEN ParseOk(JsBool(TRUE), p + 4)
      ELSE IF MatchAt(s, p, "false", FALSE) THEN ParseOk(JsBool(FALSE), p + 5)
      ELSE IF MatchAt(s, p, "null", FALSE) THEN ParseOk(JsNull, p + 4)
      ELSE ParseFail(s, p)

\* JSON.parse(s): ok with the value, or not ok with the message of its SyntaxError
JsonParse(s) ==
  LET r == ParseValue(s, 1)
  IN  IF ~r.ok THEN r
      ELSE LET p == SkipJsonWs(s, r.pos)
           IN  IF p <= Len(s) THEN ParseFail(s, p) ELSE r

(***************************************************************************)
(* JavaScript expression semantics used by validateWithLLM                 *)
(***************************************************************************)
JsNaN == [t |-> "nan"]

\* ToBoolean
Truthy(x) ==
  CASE x.t = "undef" -> FALSE
    [] x.t = "null"  -> FALSE
    [] x.t = "nan"   -> FALSE
    [] x.t = "bool"  -> x.v
    [] x.t = "num"   -> x.v # 0
    [] x.t = "str"   -> x.v # ""
    [] OTHER         -> TRUE

\* reading a property of null or undefined throws a TypeError
GetThrows(x) == x.t \in {"null", "undef"}

GetMessage(x, key) ==
  "Cannot read properties of "
    \o (IF x.t = "null" THEN "null" ELSE "undefined")
    \o " (reading '" \o key \o "')"

\* x.key, for x that is neither null nor undefined
Get(x, key) ==
  IF x.t = "obj" /\ key \in DOMAIN x.v THEN x.v[key] ELSE Undefined

\* x[0]
GetIndex0(x) ==
  CASE x.t = "arr" -> IF Len(x.v) >= 1 THEN x.v[1] ELSE Undefined
    [] x.t = "str" -> IF Len(x.v) >= 1 THEN JsStr(CharAt(x.v, 1)) ELSE Undefined
    [] OTHER       -> Get(x, "0")

\* a || b || c || d
Or2(a, b) == IF Truthy(a) THEN a ELSE b
Or3(a, b, c) == Or2(Or2(a, b), c)
Or4(a, b, c, d) == Or2(Or3(a, b, c), d)

RECURSIVE JsStringThrows(_)
\* String(x) throws a TypeError when an object shadows toString with a value
\* that cannot be called (every JSON value is such a value)
JsStringThrows(x) ==
  CASE x.t = "obj" -> "toString" \in DOMAIN x.v
    [] x.t = "arr" -> \E k \in 1..Len(x.v) : JsStringThrows(x.v[k])
    [] OTHER       -> FALSE

\* Number.prototype.toString for a number of more than 9 digits:
\* plain digits below 10^21, exponent notation from there on
BigToStr(x) ==
  (IF x.neg THEN "-" ELSE "")
    \o (IF x.point <= 21
        THEN x.digits \o Zeros(x.point - Len(x.digits))
        ELSE CharAt(x.digits, 1)
               \o (IF Len(x.digits) > 1
                   THEN "." \o SubSeq(x.digits, 2, Len(x.digits)) ELSE "")
               \o "e+" \o NatToStr(x.point - 1))

RECURSIVE JsString(_)
RECURSIVE JoinFrom(_, _)
JoinFrom(q, k) ==
  IF k > Len(q) THEN ""
  ELSE (IF k > 1 THEN "," ELSE "")
         \o (IF q[k].t \in {"null", "undef"} THEN "" ELSE JsString(q[k]))
         \o JoinFrom(q, k + 1)

\* String(x), for x on which it does not throw
JsString(x) ==
  CASE x.t = "str"   -> x.v
    [] x.t = "num"   -> IntToStr(x.v)
    [] x.t = "nan"   -> "NaN"
    [] x.t = "bool"  -> IF x.v THEN "true" ELSE "false"
    [] x.t = "null"  -> "null"
    [] x.t = "undef" -> "undefined"
    [] x.t = "arr"   -> JoinFrom(x.v, 1)
    [] x.t = "big"   -> BigToStr(x)
    [] OTHER         -> "[object Object]"

\* parseInt(x) for x on which String(x) does not throw: leading white space,
\* an optional sign, then the longest run of decimal digits; NaN without one
ParseDigits(s, neg, d, e) ==
  IF e = d THEN JsNaN ELSE MakeNumber(neg, s, d, e, 0)

ParseSigned(s, b) ==
  IF b <= Len(s) /\ CharAt(s, b) \in {"-", "+"}
  THEN ParseDigits(s, CharAt(s, b) = "-", b + 1, DigitsEnd(s, b + 1))
  ELSE ParseDigits(s, FALSE, b, DigitsEnd(s, b))

ParseIntString(s) == ParseSigned(s, SkipWs(s, 1))

parseInt(x) == ParseIntString(JsString(x))

\* Math.max / Math.min of a number literal of at most 9 digits and a
\* number that may be NaN
MathMax(n, x) ==
  CASE x.t = "nan" -> JsNaN
    [] x.t = "big" -> IF x.neg THEN JsNum(n) ELSE x
    [] OTHER       -> JsNum(Max2(n, x.v))

MathMin(n, x) ==
  CASE x.t = "nan" -> JsNaN
    [] x.t = "big" -> IF x.neg THEN x ELSE JsNum(n)
    [] OTHER       -> JsNum(Min2(n, x.v))

(***************************************************************************)
(* validateWithLLM (part_000:70-194)                                       *)
(* A completion is what a call ends with: a returned value or a thrown     *)
(* Error with its message.                                                 *)
(***************************************************************************)
Return(v) == [threw |-> FALSE, value |-> v, message |-> ""]
Throw(m)  == [threw |-> TRUE, value |-> Undefined, message |-> m]

Verdict(rule, status, evidence, reasoning, confidence) ==
  [rule |-> rule, status |-> status, evidence |-> evidence,
   reasoning |-> reasoning, confidence |-> confidence]

NoPrimitive == "Cannot convert object to primitive value"

DefaultConfidence == 50
MaxFieldLen == 200
ExcerptLen == 100

\* lines 165-166: confidenceRaw, parseInt and the clamp
ConfidenceRaw(result) ==
  Or4(Get(result, "confidence"), Get(result, "Confidence"),
      Get(result, "score"), JsNum(DefaultConfidence))

NormalizeConfidence(result) ==
  MathMin(100, MathMax(0, parseInt(ConfidenceRaw(result))))

\* lines 162 and 169: status, lower-cased and forced into pass/fail
StatusRaw(result) ==
  Or3(Get(result, "status"), Get(result, "Status"), JsStr("fail"))

\* a normalizer that keeps whatever status the model gave
ValidStatusUnchecked(status) == status

ValidStatus(status) ==
  IF status = "pass" \/ status = "fail" THEN status ELSE "fail"

NormalizeStatus(result) ==
  ValidStatus(JsToLowerCase(JsString(StatusRaw(result))))

EvidenceRaw(result) ==
  Or4(Get(result, "evidence"), Get(result, "Evidence"), Get(result, "quote"),
      JsStr("No evidence provided"))

ReasoningRaw(result) ==
  Or4(Get(result, "reasoning"), Get(result, "Reasoning"),
      Get(result, "reason"), JsStr("No reasoning provided"))

\* lines 161-179: the Verdict of a parsed reply; the property reads throw on
\* null, String() and parseInt() throw on an object that shadows toString
NormalizeFields(result, rule) ==
  IF GetThrows(result) THEN Throw(GetMessage(result, "status"))
  ELSE IF \/ JsStringThrows(StatusRaw(result))
          \/ JsStringThrows(EvidenceRaw(result))
          \/ JsStringThrows(ReasoningRaw(result))
          \/ JsStringThrows(ConfidenceRaw(result))
       THEN Throw(NoPrimitive)
  ELSE Return(Verdict(rule,
                      NormalizeStatus(result),
                      JsSubstring(JsString(EvidenceRaw(result)), 0, MaxFieldLen),
                      JsSubstring(JsString(ReasoningRaw(result)), 0, MaxFieldLen),
                      NormalizeConfidence(result)))

\* lines 152-158: the Verdict returned when JSON.parse throws
ParseFallback(rule, message, content) ==
  Verdict(rule, "fail", "Unable to parse LLM response",
          "Parse error: " \o message \o ". Raw content: "
            \o JsSubstring(content, 0, ExcerptLen),
          JsNum(0))

\* lines 140-179: from the trimmed reply text to the Verdict
\* lines 144-179: the outcome of JSON.parse decides
NormalizeParsed(parsed, content, rule) ==
  IF ~parsed.ok THEN Return(ParseFallback(rule, parsed.msg, content))
  ELSE NormalizeFields(parsed.val, rule)

NormalizeContent(content, rule) ==
  NormalizeParsed(JsonParse(content), content, rule)

NormalizeReply(text, rule) == NormalizeContent(extractJSON(text), rule)

\* lines 123-127: the Error built from a non-2xx response
\* errorData.error?.message
OptionalMessage(e) == IF GetThrows(e) THEN Undefined ELSE Get(e, "message")

UpstreamMessage(m) ==
  IF JsStringThrows(m) THEN Throw(NoPrimitive)
  ELSE Throw("Groq API error: " \o JsString(m))

UpstreamError(body) ==
  IF ~body.ok THEN Throw(body.msg)
  ELSE IF GetThrows(body.val) THEN Throw(GetMessage(body.val, "error"))
  ELSE UpstreamMessage(Or2(OptionalMessage(Get(body.val, "error")),
                           JsStr("Unknown error")))

\* lines 129-137: the reply text of a 2xx envelope, trimmed
\* line 137: content.trim()
TrimContent(content) ==
  IF GetThrows(content) THEN Throw(GetMessage(content, "trim"))
  ELSE IF content.t # "str"
       THEN Throw("data.choices[0].message.content.trim is not a function")
  ELSE Return(JsTrim(content.v))

\* line 137: message.content
MessageContent(message) ==
  IF GetThrows(message) THEN Throw(GetMessage(message, "content"))
  ELSE TrimContent(Get(message, "content"))

\* lines 132-137
FirstChoice(choices) ==
  IF ~Truthy(choices) \/ ~Truthy(GetIndex0(choices))
  THEN Throw("Invalid response structure from Groq")
  ELSE MessageContent(Get(GetIndex0(choices), "message"))

EnvelopeContent(body) ==
  IF ~body.ok THEN Throw(body.msg)
  ELSE IF GetThrows(body.val) THEN Throw(GetMessage(body.val, "choices"))
  ELSE FirstChoice(Get(body.val, "choices"))

\* lines 97-179: the try block, from what the fetch settled with
NormalizeIfReceived(content, rule) ==
  IF content.threw THEN content ELSE NormalizeReply(content.value, rule)

TryBlock(rule, outcome) ==
  IF outcome.kind = "reject" THEN Throw(outcome.message)
  ELSE IF ~outcome.ok THEN UpstreamError(outcome.body)
  ELSE NormalizeIfReceived(EnvelopeContent(outcome.body), rule)

\* lines 180-193: the catch block rethrows, renaming by what the message holds
Classify(message) ==
  IF JsIncludes(message, "401") THEN "Invalid API key"
  ELSE IF JsIncludes(message, "429") THEN "Rate limit exceeded"
  ELSE IF JsIncludes(message, "quota") THEN "API quota exceeded"
  ELSE message

\* validateWithLLM once the credential check passed and the fetch settled
Rethrow(c) == IF c.threw THEN Throw(Classify(c.message)) ELSE c

AfterFetch(rule, outcome) == Rethrow(TryBlock(rule, outcome))

MissingKeyMessage == "Groq API key not configured in .env file"

(***************************************************************************)
(* Inputs: what a fetch can settle with, and what a request can carry      *)
(***************************************************************************)
MaxRules == 2
MaxClock == 1

BodyOk(v)    == [ok |-> TRUE, val |-> v, msg |-> ""]
BodyBad(m)   == [ok |-> FALSE, val |-> Undefined, msg |-> m]
\* fetch rejected: no response
Rejected(m)  == [kind |-> "reject", status |-> 0, ok |-> FALSE,
                 body |-> BodyBad(""), message |-> m]
\* fetch resolved with a response: response.ok is a status in 200..299
Responded(status, body) ==
  [kind |-> "response", status |-> status, ok |-> status \in 200..299,
   body |-> body, message |-> ""]

\* a 2xx envelope whose first choice carries the reply text
Envelope(text) ==
  BodyOk(JsObj("choices" :>
           JsArr(<< JsObj("message" :> JsObj("content" :> JsStr(text))) >>)))

ErrorBody(m) == BodyOk(JsObj("error" :> JsObj("message" :> JsStr(m))))

GoodReply ==
  "{\"status\":\"pass\",\"evidence\":\"e\",\"reasoning\":\"r\",\"confidence\":87}"
ProseReply == "I think it passes."
NullReply == "null"
ArrayReply == "[]"
HighReply == "{\"status\":\"fail\",\"evidence\":\"e\",\"confidence\":\"high\"}"
MaybeReply == "{\"status\":\"maybe\",\"confidence\":-5}"
FencedReply ==
  Fence \o "json\n{\"Status\":\"PASS\",\"quote\":\"q\",\"reason\":\"why\",\"score\":150}\n"
        \o Fence

ZeroReply ==
  "{\"status\":\"fail\",\"evidence\":\"e\",\"reasoning\":\"r\",\"confidence\":0}"
FullReply ==
  "{\"status\":\"pass\",\"evidence\":\"e\",\"reasoning\":\"r\",\"confidence\":100}"
UpperReply ==
  "{\"status\":\"PASS\",\"evidence\":\"e\",\"reasoning\":\"r\",\"confidence\":70}"
ErrorStatusReply ==
  "{\"status\":\"error\",\"evidence\":\"e\",\"reasoning\":\"r\",\"confidence\":70}"
EmptyStatusReply == "{\"status\":\"\",\"evidence\":\"e\",\"confidence\":70}"
NoStatusReply == "{\"evidence\":\"e\",\"reasoning\":\"r\",\"confidence\":70}"
NoConfidenceReply == "{\"status\":\"pass\",\"evidence\":\"e\",\"reasoning\":\"r\"}"
TrueConfidenceReply == "{\"status\":\"pass\",\"confidence\":true}"
ObjectConfidenceReply == "{\"status\":\"pass\",\"confidence\":{}}"
OverReply == "{\"status\":\"pass\",\"evidence\":\"e\",\"confidence\":150}"
HugeReply == "{\"status\":\"pass\",\"evidence\":\"e\",\"confidence\":1e21}"

\* a reply that is no JSON and carries grave accents of its own
TickedReply == BackTick \o BackTick \o "pass" \o BackTick \o BackTick

RECURSIVE Repeat(_, _)
\* n copies of s, by halves
Repeat(s, n) ==
  IF n <= 0 THEN ""
  ELSE IF n = 1 THEN s
  ELSE Repeat(s, n \div 2) \o Repeat(s, n - (n \div 2))

\* a reply whose evidence and reasoning are longer than substring keeps
LongReply ==
  "{\"status\":\"pass\",\"evidence\":\"" \o Repeat("e", MaxFieldLen + 10)
    \o "\",\"reasoning\":\"" \o Repeat("r", MaxFieldLen + 1)
    \o "\",\"confidence\":90}"

\* a reply that is no JSON and longer than the excerpt of the parse fallback
LongProseReply == Repeat("The document states a purpose. ", 4)

\* the outcomes of the completion request that the handler specification
\* draws from
HandlerOutcomes ==
  << Responded(200, Envelope(GoodReply)),
     Responded(200, Envelope(ProseReply)),
     Responded(200, Envelope(NullReply)),
     Responded(200, Envelope(ArrayReply)),
     Responded(200, Envelope(HighReply)),
     Responded(200, Envelope(MaybeReply)),
     Responded(200, Envelope(FencedReply)),
     Responded(200, BodyOk(JsObj(EmptyObject))),
     Responded(401, ErrorBody("Invalid API Key")),
     Responded(429, ErrorBody("HTTP 429 too many requests")),
     Responded(502, BodyBad("Unexpected token < in JSON at position 0")),
     Rejected("fetch failed") >>

\* the reply texts of the reply specification: each base text bare and in
\* each wrapping
BaseReplies ==
  << GoodReply, ProseReply, NullReply, ArrayReply, HighReply, MaybeReply,
     FencedReply, ZeroReply, FullReply, UpperReply, ErrorStatusReply,
     EmptyStatusReply, NoStatusReply, NoConfidenceReply, TrueConfidenceReply,
     ObjectConfidenceReply, OverReply, HugeReply, LongReply, LongProseReply,
     TickedReply >>

Wrappings ==
  << "bare", "fence json", "fence", "prose", "prose with braces",
     "second object" >>

\* the text t as the model may send it
Wrap(w, t) ==
  CASE w = "fence json" -> Fence \o "json\n" \o t \o "\n" \o Fence
    [] w = "fence"      -> Fence \o "\n" \o t \o "\n" \o Fence
    [] w = "prose"      -> "Here is my answer: " \o t \o " Hope it helps."
    [] w = "prose with braces" -> "Verdict {final}: " \o t
    [] w = "second object" -> t \o " For example {\"status\":\"fail\"}"
    [] OTHER            -> t

ReplyTexts ==
  [j \in 1..(Len(BaseReplies) * Len(Wrappings)) |->
     Wrap(Wrappings[((j - 1) % Len(Wrappings)) + 1],
          BaseReplies[((j - 1) \div Len(Wrappings)) + 1])]

ReplyOutcomes == [j \in DOMAIN ReplyTexts |-> Responded(200, Envelope(ReplyTexts[j]))]

\* failed calls of the reply specification, besides those of HandlerOutcomes
QuotaExhausted == Responded(402, ErrorBody("You exceeded your current quota"))

FailureOutcomes ==
  << Responded(429, ErrorBody("Rate limit reached, please try again in 7s")),
     QuotaExhausted,
     Responded(500, ErrorBody("Internal error, request req_4012")),
     Responded(500, ErrorBody(Repeat("Service unavailable. ", 11))),
     Rejected("connect ECONNREFUSED 10.0.0.1:4290") >>

Outcomes == HandlerOutcomes \o ReplyOutcomes \o FailureOutcomes

\* the outcomes of the handler specification
OutcomeIds == 1..Len(HandlerOutcomes)

\* the outcomes of the reply specification
AllOutcomeIds == 1..Len(Outcomes)

\* outcomes in which the completion call itself failed: the fetch rejected,
\* the response was not 2xx, or the envelope carried no first choice
FailedCall(o) ==
  \/ o.kind = "reject"
  \/ ~o.ok
  \/ ~o.body.ok
  \/ EnvelopeContent(o.body).threw

\* the reply text a successful call received
ReplyText(o) == EnvelopeContent(o.body).value

RuleName(k) == "r" \o NatToStr(k)

RECURSIVE RulesList(_)
RulesList(n) == IF n = 0 THEN << >> ELSE Append(RulesList(n - 1), RuleName(n))

RECURSIVE RulesItems(_)
RulesItems(n) ==
  IF n = 0 THEN ""
  ELSE RulesItems(n - 1) \o (IF n > 1 THEN "," ELSE "")
         \o "\"" \o RuleName(n) \o "\""

\* JSON.stringify of the list of the first n rules
RulesText(n) == "[" \o RulesItems(n) \o "]"

\* values of req.body.rules that do not encode a list of rules
OddRulesFields ==
  {Undefined, JsStr(""), JsStr("r1, r2"), JsStr("null"), JsStr("{}")}

FileNames == {"a.pdf", "b.pdf"}

(***************************************************************************)
(* State                                                                   *)
(***************************************************************************)
VARIABLES
  apiKey,     \* process.env.GROQ_API_KEY, "" when not configured
  now,        \* Date.now()
  uploads,    \* the uploads/ directory: path |-> the request whose bytes it holds
  unlinking,  \* paths given to fs.unlink whose removal has not happened yet
  req         \* per request: the handler's position, locals and what it sent

vars == <<apiKey, now, uploads, unlinking, req>>

IdleReq ==
  [pc |-> "idle",             \* idle, received, extracting, fetching, delay, done
   hasFile |-> FALSE,         \* req.file is set
   path |-> "",               \* req.file.path
   rules |-> Undefined,       \* req.body.rules
   submitted |-> << >>,       \* the rules the client encoded into the field
   encodesList |-> FALSE,     \* the field is the encoding of submitted
   parsedRules |-> Undefined,
   readFrom |-> 0,            \* whose bytes readFileSync returned
   i |-> 0,
   results |-> << >>,
   responses |-> << >>,       \* what was sent on res
   outcomes |-> << >>,        \* per rule attempted: the outcome id, 0 when no fetch
   calls |-> 0,               \* completion requests issued
   inflight |-> 0,            \* completion requests issued and not settled
   delays |-> 0,              \* pacing delays started
   unlinkIssued |-> FALSE]

\* a catch that reports the failed rule as a failed check
ErrorVerdictAsFail(rule, message) ==
  Verdict(rule, "fail", "N/A", message, JsNum(0))

\* lines 231-237: the Verdict the handler's catch pushes
ErrorVerdict(rule, message) == Verdict(rule, "error", "N/A", message, JsNum(0))

HasLength(v) == v.t \in {"arr", "str"}
Length(v) == Len(v.v)
\* a loop that walks the rules from the last to the first
RuleAtReversed(v, i) ==
  IF v.t = "arr" THEN v.v[Len(v.v) - i] ELSE JsStr(CharAt(v.v, Len(v.v) - i))

RuleAt(v, i) == IF v.t = "arr" THEN v.v[i + 1] ELSE JsStr(CharAt(v.v, i + 1))

\* res.status(code).json({ error: message })
SendError(q, code, message) ==
  [q EXCEPT !.pc = "done",
            !.responses = Append(@, [status |-> code, kind |-> "error",
                                     error |-> message, results |-> << >>])]

\* lines 247-255: fs.unlink is issued, then res.json({ results })
Finish(q) ==
  [q EXCEPT !.pc = "done",
            !.unlinkIssued = TRUE,
            !.responses = Append(@, [status |-> 200, kind |-> "results",
                                     error |-> "", results |-> q.results])]

\* a handler that answers as soon as the first Verdict is pushed
AfterVerdictRespondEarly(q) == Finish([q EXCEPT !.i = @ + 1])

\* a handler that also waits after the last rule
AfterVerdictAlwaysDelay(q) ==
  IF q.i < Length(q.parsedRules)
  THEN [q EXCEPT !.pc = "delay", !.delays = @ + 1]
  ELSE Finish([q EXCEPT !.i = @ + 1])

\* lines 240-245, then the loop's i++ and test
AfterVerdict(q) ==
  IF q.i < Length(q.parsedRules) - 1
  THEN [q EXCEPT !.pc = "delay", !.delays = @ + 1]
  ELSE Finish([q EXCEPT !.i = @ + 1])

\* lines 222-227 and 70-121: the loop test, then validateWithLLM up to the
\* await of fetch; without a credential it throws before the try block and
\* the handler's catch of lines 229-238 records the Verdict
EnterRule(q) ==
  IF ~(HasLength(q.parsedRules) /\ q.i < Length(q.parsedRules)) THEN Finish(q)
  ELSE IF apiKey = ""
       THEN AfterVerdict(
              [q EXCEPT !.results = Append(@, ErrorVerdict(
                                       RuleAt(q.parsedRules, q.i),
                                       MissingKeyMessage)),
                        !.outcomes = Append(@, 0)])
  ELSE [q EXCEPT !.pc = "fetching", !.calls = @ + 1, !.inflight = @ + 1]

\* the request's record changes to q; an unlink it issued becomes pending
Becomes(r, q) ==
  /\ req' = [req EXCEPT ![r] = q]
  /\ unlinking' = IF q.unlinkIssued /\ ~req[r].unlinkIssued
                  THEN unlinking \cup {q.path} ELSE unlinking

(***************************************************************************)
(* Actions                                                                 *)
(***************************************************************************)
\* time passes; Date.now() is read only when an upload is stored
Tick ==
  /\ now < MaxClock
  /\ \E r \in DOMAIN req : req[r].pc = "idle"
  /\ now' = now + 1
  /\ UNCHANGED <<apiKey, uploads, unlinking, req>>

\* lines 16-23: upload.single('pdf') stores the file part, if any, under
\* Date.now() + '-' + originalname and sets req.file and req.body
Receive(r, hasFile, name, rules, n) ==
  /\ req[r].pc = "idle"
  /\ LET path == "uploads/" \o NatToStr(now) \o "-" \o name
     IN  /\ req' = [req EXCEPT ![r] =
                      [@ EXCEPT !.pc = "received",
                                !.hasFile = hasFile,
                                !.path = IF hasFile THEN path ELSE "",
                                !.rules = rules,
                                !.encodesList = (rules = JsStr(RulesText(n))),
                                !.submitted =
                                   IF rules = JsStr(RulesText(n))
                                   THEN RulesList(n) ELSE << >>]]
         /\ uploads' = IF hasFile
                       THEN [p \in DOMAIN uploads \cup {path} |->
                               IF p = path THEN r ELSE uploads[p]]
                       ELSE uploads
  /\ UNCHANGED <<apiKey, now, unlinking>>

\* lines 198-217: the handler up to the await inside extractPdfText, whose
\* readFileSync runs before it
\* lines 212-217: JSON.parse(rules) returned or threw; then readFileSync
HandleParsed(q, parsed) ==
  IF ~parsed.ok THEN SendError(q, 500, parsed.msg)
  ELSE IF GetThrows(parsed.val)
       THEN SendError(q, 500, GetMessage(parsed.val, "length"))
  ELSE IF q.path \notin DOMAIN uploads
       THEN SendError(q, 500, "ENOENT: no such file or directory, open '"
                                \o q.path \o "'")
  ELSE [q EXCEPT !.pc = "extracting",
                 !.parsedRules = parsed.val,
                 !.readFrom = uploads[q.path]]

\* lines 201-210: the two 400 answers
HandleRequest(q) ==
  IF ~q.hasFile THEN SendError(q, 400, "No PDF uploaded")
  ELSE IF ~Truthy(q.rules) \/ Len(q.rules.v) = 0
       THEN SendError(q, 400, "No validation rules provided")
  ELSE HandleParsed(q, JsonParse(q.rules.v))

Handle(r) ==
  /\ req[r].pc = "received"
  /\ Becomes(r, HandleRequest(req[r]))
  /\ UNCHANGED <<apiKey, now, uploads>>

\* line 217 resolves: pdfParse returned the text; the loop starts
ExtractResolves(r) ==
  /\ req[r].pc = "extracting"
  /\ Becomes(r, EnterRule(req[r]))
  /\ UNCHANGED <<apiKey, now, uploads>>

\* line 217 throws: pdfParse rejected; the catch of lines 256-259 answers
ExtractRejects(r) ==
  /\ req[r].pc = "extracting"
  /\ Becomes(r, SendError(req[r], 500, "Invalid PDF structure"))
  /\ UNCHANGED <<apiKey, now, uploads>>

\* lines 100-179 and 227-245: the fetch settles with outcome k; the Verdict
\* or the catch's error Verdict is pushed, then the delay starts or the
\* handler finishes
\* lines 227-238: the Verdict pushed for a completion of validateWithLLM
VerdictOf(rule, c) ==
  IF c.threw THEN ErrorVerdict(rule, c.message) ELSE c.value

\* a client that sends a failed request once more before giving up
SettleWithRetry(q, k, rule) ==
  IF AfterFetch(rule, Outcomes[k]).threw /\ q.calls = q.i + 1
  THEN [q EXCEPT !.calls = @ + 1]
  ELSE AfterVerdict([q EXCEPT !.inflight = @ - 1,
                              !.outcomes = Append(@, k),
                              !.results = Append(@,
                                 VerdictOf(rule, AfterFetch(rule, Outcomes[k])))])

\* lines 227-245: the fetch settled with outcome k for the rule
Settle(q, k, rule) ==
  AfterVerdict([q EXCEPT !.inflight = @ - 1,
                         !.outcomes = Append(@, k),
                         !.results = Append(@,
                            VerdictOf(rule, AfterFetch(rule, Outcomes[k])))])

FetchSettles(r, k) ==
  /\ req[r].pc = "fetching"
  /\ Becomes(r, Settle(req[r], k, RuleAt(req[r].parsedRules, req[r].i)))
  /\ UNCHANGED <<apiKey, now, uploads>>

\* line 243: the timer fires; i++ and the next iteration starts
DelayElapses(r) ==
  /\ req[r].pc = "delay"
  /\ Becomes(r, EnterRule([req[r] EXCEPT !.i = @ + 1]))
  /\ UNCHANGED <<apiKey, now, uploads>>

\* line 248: the unlink happens; a path already gone only logs an error
UnlinkCompletes(p) ==
  /\ p \in unlinking
  /\ unlinking' = unlinking \ {p}
  /\ uploads' = [x \in DOMAIN uploads \ {p} |-> uploads[x]]
  /\ UNCHANGED <<apiKey, now, req>>

ApiKeys == {"", "gsk_key"}

Init ==
  /\ apiKey \in ApiKeys
  /\ now = 0
  /\ uploads = [p \in {} |-> 0]
  /\ unlinking = {}
  /\ req = [r \in {1} |-> IdleReq]

Next ==
  \/ Tick
  \/ \E r \in DOMAIN req, hasFile \in BOOLEAN, name \in FileNames,
        n \in 0..MaxRules :
          \E rules \in OddRulesFields \cup {JsStr(RulesText(n))} :
            Receive(r, hasFile, name, rules, n)
  \/ \E r \in DOMAIN req : Handle(r)
  \/ \E r \in DOMAIN req : ExtractResolves(r)
  \/ \E r \in DOMAIN req : ExtractRejects(r)
  \/ \E r \in DOMAIN req, k \in OutcomeIds : FetchSettles(r, k)
  \/ \E r \in DOMAIN req : DelayElapses(r)
  \/ \E p \in unlinking : UnlinkCompletes(p)

Spec == Init /\ [][Next]_vars

\* The reply specification: one request with a credential, a document and one
\* rule, whose completion request settles with any outcome of the table.
ReplyInit ==
  /\ apiKey = "gsk_key"
  /\ now = 0
  /\ uploads = [p \in {} |-> 0]
  /\ unlinking = {}
  /\ req = [r \in {1} |-> IdleReq]

ReplyNext ==
  \/ \E r \in DOMAIN req, name \in FileNames :
       Receive(r, TRUE, name, JsStr(RulesText(1)), 1)
  \/ \E r \in DOMAIN req : Handle(r)
  \/ \E r \in DOMAIN req : ExtractResolves(r)
  \/ \E r \in DOMAIN req : ExtractRejects(r)
  \/ \E r \in DOMAIN req, k \in AllOutcomeIds : FetchSettles(r, k)
  \/ \E p \in unlinking : UnlinkCompletes(p)

ReplySpec == ReplyInit /\ [][ReplyNext]_vars

\* The pair specification: two requests in the same process, each with a
\* credential, a document and one rule; a completion request ends with the
\* good reply or with a rejected fetch.
PairOutcomeIds ==
  {k \in OutcomeIds :
     Outcomes[k] \in {Responded(200, Envelope(GoodReply)), Rejected("fetch failed")}}

PairInit ==
  /\ apiKey = "gsk_key"
  /\ now = 0
  /\ uploads = [p \in {} |-> 0]
  /\ unlinking = {}
  /\ req = [r \in {1, 2} |-> IdleReq]

PairNext ==
  \/ Tick
  \/ \E r \in DOMAIN req, name \in FileNames :
       Receive(r, TRUE, name, JsStr(RulesText(1)), 1)
  \/ \E r \in DOMAIN req : Handle(r)
  \/ \E r \in DOMAIN req : ExtractResolves(r)
  \/ \E r \in DOMAIN req : ExtractRejects(r)
  \/ \E r \in DOMAIN req, k \in PairOutcomeIds : FetchSettles(r, k)
  \/ \E p \in unlinking : UnlinkCompletes(p)

PairSpec == PairInit /\ [][PairNext]_vars

(***************************************************************************)
(* Properties                                                              *)
(***************************************************************************)
Reqs == DOMAIN req

\* the request ended with res.json({ results })
SentResults(r) ==
  /\ req[r].pc = "done"
  /\ Len(req[r].responses) = 1
  /\ req[r].responses[1].kind = "results"

SentList(r) == req[r].responses[1].results

NumRules(q) == IF HasLength(q.parsedRules) THEN Length(q.parsedRules) ELSE 0

\* rule positions of r for which a completion request settled
Settled(r) == {k \in 1..Len(req[r].outcomes) : req[r].outcomes[k] # 0}

OutcomeAt(r, k) == Outcomes[req[r].outcomes[k]]

WellFormed(v) ==
  /\ DOMAIN v = {"rule", "status", "evidence", "reasoning", "confidence"}
  /\ v.status \in {"pass", "fail", "error"}
  /\ v.confidence.t = "num"
  /\ v.confidence.v \in 0..100

\* C1: every Verdict of every result list has the five fields, a status among
\* pass, fail and error, and an integer confidence in [0,100].
C1_VerdictsWellFormed ==
  \A r \in Reqs : \A k \in 1..Len(req[r].results) :
    WellFormed(req[r].results[k])

\* C2: a result list has one Verdict per submitted rule, in submission order,
\* the k-th Verdict echoing the k-th rule.
C2_OneVerdictPerRuleInOrder ==
  \A r \in Reqs :
    (SentResults(r) /\ req[r].encodesList) =>
      /\ Len(SentList(r)) = Len(req[r].submitted)
      /\ \A k \in 1..Len(SentList(r)) :
           SentList(r)[k].rule = JsStr(req[r].submitted[k])

C2_Witness ==
  \E r \in Reqs :
    /\ SentResults(r)
    /\ req[r].encodesList
    /\ Len(req[r].submitted) >= 2
    /\ SentList(r)[1].status = "error"
    /\ SentList(r)[2].status = "pass"

\* C3: a failed completion call for rule k leaves at position k the Verdict
\* (error, "N/A", the error's message, 0); the rules after k are still
\* processed and the list sent is complete.
C3_FailedCallIsolated ==
  \A r \in Reqs : \A k \in Settled(r) :
    FailedCall(OutcomeAt(r, k)) =>
      /\ k <= Len(req[r].results)
      /\ req[r].results[k].status = "error"
      /\ req[r].results[k].evidence = "N/A"
      /\ req[r].results[k].confidence = JsNum(0)
      /\ req[r].results[k].reasoning =
           AfterFetch(req[r].results[k].rule, OutcomeAt(r, k)).message
      /\ req[r].results[k].reasoning # ""
      /\ (OutcomeAt(r, k).kind = "reject" =>
            req[r].results[k].reasoning = OutcomeAt(r, k).message)
      /\ (req[r].pc = "done" =>
            /\ SentResults(r)
            /\ Len(SentList(r)) = NumRules(req[r]))
      /\ \A j \in Settled(r) :
           (j > k /\ ~FailedCall(OutcomeAt(r, j))
                  /\ ReplyText(OutcomeAt(r, j)) = GoodReply) =>
             req[r].results[j] =
               Verdict(RuleAt(req[r].parsedRules, j - 1), "pass", "e", "r",
                       JsNum(87))

C3_Witness ==
  \E r \in Reqs :
    /\ SentResults(r)
    /\ 1 \in Settled(r) /\ 2 \in Settled(r)
    /\ OutcomeAt(r, 1).kind = "reject"
    /\ ReplyText(OutcomeAt(r, 2)) = GoodReply
    /\ SentList(r)[1].status = "error"
    /\ SentList(r)[2].status = "pass"

\* the reply of a successful call does not parse after extractJSON
Unparsable(o) == ~FailedCall(o) /\ ~JsonParse(extractJSON(ReplyText(o))).ok

\* C4: a reply that cannot be parsed yields the Verdict (error, "Unable to
\* parse LLM response", a non-empty reasoning with the parse error's message
\* and an excerpt of the text, 0).
C4_ParseFailureIsError ==
  \A r \in Reqs : \A k \in Settled(r) :
    Unparsable(OutcomeAt(r, k)) =>
      /\ req[r].results[k].status = "error"
      /\ req[r].results[k].evidence = "Unable to parse LLM response"
      /\ req[r].results[k].confidence = JsNum(0)
      /\ JsIncludes(req[r].results[k].reasoning,
                    JsonParse(extractJSON(ReplyText(OutcomeAt(r, k)))).msg)

\* C5: no reply that was received makes the normalizer throw: no Verdict of
\* the handler's catch (evidence "N/A") stands where a reply was received.
C5_NormalizerNeverRaises ==
  \A r \in Reqs : \A k \in Settled(r) :
    ~FailedCall(OutcomeAt(r, k)) => req[r].results[k].evidence # "N/A"

\* the request carried a document and a non-empty rules field
HasDocumentAndRules(q) ==
  /\ q.pc # "idle"
  /\ q.hasFile
  /\ Truthy(q.rules)
  /\ q.encodesList
  /\ Len(q.submitted) >= 1

\* C6: without a credential a request with a document and rules ends with a
\* single top-level error and no per-rule work: no Verdict, no pacing delay,
\* no completion request.
C6_MissingCredentialFailsFast ==
  \A r \in Reqs :
    (apiKey = "" /\ HasDocumentAndRules(req[r])) =>
      /\ Len(req[r].results) = 0
      /\ req[r].delays = 0
      /\ req[r].calls = 0
      /\ (req[r].pc = "done" =>
            /\ Len(req[r].responses) = 1
            /\ req[r].responses[1].kind = "error")

\* C7: no request ends with its stored file still present (a file whose
\* unlink is pending is on its way out).
C7_UploadDeleted ==
  \A r \in Reqs :
    (req[r].pc = "done" /\ req[r].hasFile /\ req[r].path \notin unlinking) =>
      req[r].path \notin DOMAIN uploads

C9_SequentialWithPacing ==
  \A r \in Reqs :
    /\ req[r].inflight <= 1
    /\ (req[r].pc = "fetching" <=> req[r].inflight = 1)
    /\ (req[r].pc = "fetching" =>
          /\ Len(req[r].results) = req[r].i
          /\ req[r].delays = req[r].i)
    /\ (req[r].pc = "delay" =>
          /\ Len(req[r].results) = req[r].i + 1
          /\ req[r].delays = req[r].i + 1
          /\ req[r].i + 1 < NumRules(req[r]))
    /\ (SentResults(r) =>
          req[r].delays = Max2(NumRules(req[r]) - 1, 0))

C9_Witness ==
  \E r \in Reqs :
    /\ SentResults(r)
    /\ NumRules(req[r]) = 2
    /\ req[r].delays = 1
    /\ req[r].calls = 2
    /\ SentList(r)[2].status = "error"

\* C10: with a credential the completion endpoint is called once per rule,
\* failed or not: a failed call is not retried and gives one error Verdict.
C10_OneCallPerRule ==
  \A r \in Reqs :
    apiKey # "" =>
      /\ req[r].calls = Len(req[r].results) + req[r].inflight
      /\ Len(req[r].outcomes) = Len(req[r].results)
      /\ Settled(r) = 1..Len(req[r].results)
      /\ (SentResults(r) => req[r].calls = NumRules(req[r]))

C10_Witness ==
  \E r \in Reqs :
    /\ apiKey # ""
    /\ SentResults(r)
    /\ req[r].calls = 2
    /\ FailedCall(OutcomeAt(r, 1))
    /\ FailedCall(OutcomeAt(r, 2))
    /\ SentList(r)[1].status = "error"
    /\ SentList(r)[2].status = "error"

\* the request carried no document, or no rules: the field is absent, empty,
\* or the encoding of an empty list
NoDocumentOrNoRules(q) ==
  /\ q.pc # "idle"
  /\ \/ ~q.hasFile
     \/ q.rules = Undefined
     \/ q.rules = JsStr("")
     \/ q.encodesList /\ Len(q.submitted) = 0

\* C11: a request without a document or without rules (field absent, empty,
\* or encoding an empty list) is answered 400 with an error object before any
\* extraction or completion request; it never gets a 200 with a result list.
C11_NoDocumentOrRulesIs400 ==
  \A r \in Reqs :
    NoDocumentOrNoRules(req[r]) =>
      /\ req[r].pc \in {"received", "done"}
      /\ req[r].readFrom = 0
      /\ req[r].calls = 0
      /\ (req[r].pc = "done" =>
            /\ Len(req[r].responses) = 1
            /\ req[r].responses[1].kind = "error"
            /\ req[r].responses[1].status = 400)

(***************************************************************************)
(* Properties of the Verdict of one reply (reply specification)            *)
(***************************************************************************)
\* the completion request for position k of r settled with a reply text
Replied(r, k) == k \in Settled(r) /\ ~FailedCall(OutcomeAt(r, k))

\* what JSON.parse made of that reply
ParsedReply(r, k) == JsonParse(extractJSON(ReplyText(OutcomeAt(r, k))))

\* the reply parsed, and to a value whose fields can be read
Parsed(r, k) ==
  /\ Replied(r, k)
  /\ ParsedReply(r, k).ok
  /\ ~GetThrows(ParsedReply(r, k).val)

\* position k of r got a text of ReplyTexts: its base text and its wrapping
FromReplyTexts(r, k) ==
  /\ k \in Settled(r)
  /\ req[r].outcomes[k] - Len(HandlerOutcomes) \in DOMAIN ReplyTexts

BaseOf(r, k) ==
  BaseReplies[((req[r].outcomes[k] - Len(HandlerOutcomes) - 1)
                 \div Len(Wrappings)) + 1]

WrappingOf(r, k) ==
  Wrappings[((req[r].outcomes[k] - Len(HandlerOutcomes) - 1)
               % Len(Wrappings)) + 1]

\* the Verdict the handler records when the reply text is exactly t
VerdictOfText(rule, t) ==
  VerdictOf(rule, AfterFetch(rule, Responded(200, Envelope(t))))

\* a JSON object with exactly the four fields: status pass or fail, evidence
\* and reasoning non-empty strings within the length bound, confidence an
\* integer in 0..100
WellFormedReply(v) ==
  /\ v.t = "obj"
  /\ DOMAIN v.v = {"status", "evidence", "reasoning", "confidence"}
  /\ v.v["status"] \in {JsStr("pass"), JsStr("fail")}
  /\ v.v["evidence"].t = "str"
  /\ Len(v.v["evidence"].v) \in 1..MaxFieldLen
  /\ v.v["reasoning"].t = "str"
  /\ Len(v.v["reasoning"].v) \in 1..MaxFieldLen
  /\ v.v["confidence"].t = "num"
  /\ v.v["confidence"].v \in 0..100

\* C12: a well-formed reply (status pass or fail, string evidence and
\* reasoning, integer confidence in 0..100, 0 included) is reproduced: the
\* Verdict has the same four values and the rule.
C12_WellFormedReproduced ==
  \A r \in Reqs : \A k \in 1..Len(req[r].results) :
    (Parsed(r, k) /\ WellFormedReply(ParsedReply(r, k).val)) =>
      req[r].results[k] =
        Verdict(RuleAt(req[r].parsedRules, k - 1),
                ParsedReply(r, k).val.v["status"].v,
                ParsedReply(r, k).val.v["evidence"].v,
                ParsedReply(r, k).val.v["reasoning"].v,
                ParsedReply(r, k).val.v["confidence"])

\* the status the model gave, under either field name; "" when it gave none
ModelStatus(v) == Or2(Get(v, "status"), Get(v, "Status"))

FoldedStatus(v) ==
  IF Truthy(ModelStatus(v)) THEN JsToLowerCase(JsString(ModelStatus(v)))
  ELSE ""

ModelConfidence(v) ==
  Or3(Get(v, "confidence"), Get(v, "Confidence"), Get(v, "score"))

IsNumber(c) == c.t \in {"num", "big"}

\* absent, or a value that is no number and does not read as one
AbsentOrNonNumeric(c) ==
  /\ ~IsNumber(c)
  /\ ~JsStringThrows(c)
  /\ (c.t = "str" => ~IsNumber(parseInt(c)))

\* C14: a parsed reply whose confidence is absent or not numeric ("high", an
\* object, true) gives the neutral default 50.
C14_NonNumericConfidenceIsDefault ==
  \A r \in Reqs : \A k \in 1..Len(req[r].results) :
    (Parsed(r, k) /\ AbsentOrNonNumeric(ModelConfidence(ParsedReply(r, k).val)))
      => req[r].results[k].confidence = JsNum(DefaultConfidence)

Above(c, n) == (c.t = "big" /\ ~c.neg) \/ (c.t = "num" /\ c.v > n)
Below(c, n) == (c.t = "big" /\ c.neg) \/ (c.t = "num" /\ c.v < n)

\* C15: a numeric confidence above 100 gives 100, one below 0 gives 0, and
\* one in range is kept by the clamp (0 itself never reaches the clamp: the
\* default replaces it first, which C12 is about).
C15_ConfidenceClamped ==
  \A r \in Reqs : \A k \in 1..Len(req[r].results) :
    (Parsed(r, k) /\ IsNumber(ModelConfidence(ParsedReply(r, k).val))) =>
      /\ (Above(ModelConfidence(ParsedReply(r, k).val), 100) =>
            req[r].results[k].confidence = JsNum(100))
      /\ (Below(ModelConfidence(ParsedReply(r, k).val), 0) =>
            req[r].results[k].confidence = JsNum(0))
      /\ ((~Above(ModelConfidence(ParsedReply(r, k).val), 100)
             /\ Above(ModelConfidence(ParsedReply(r, k).val), 0)) =>
            req[r].results[k].confidence =
              ModelConfidence(ParsedReply(r, k).val))

\* C16: wrapping a reply in markdown fences (a leading fence line, with or
\* without the word json, and a trailing fence) does not change the Verdict.
C16_FencesChangeNothing ==
  \A r \in Reqs : \A k \in 1..Len(req[r].results) :
    (FromReplyTexts(r, k) /\ WrappingOf(r, k) \in {"fence json", "fence"}) =>
      req[r].results[k] =
        VerdictOfText(RuleAt(req[r].parsedRules, k - 1), BaseOf(r, k))

C16_Witness ==
  \E r \in Reqs :
    /\ SentResults(r)
    /\ FromReplyTexts(r, 1)
    /\ WrappingOf(r, 1) = "fence json"
    /\ BaseOf(r, 1) = ProseReply
    /\ SentList(r)[1].evidence = "Unable to parse LLM response"

\* the text is one JSON object
IsObjectText(t) == JsonParse(t).ok /\ JsonParse(t).val.t = "obj"

\* C17: prose before and after one JSON object does not change the Verdict,
\* whatever the prose holds, braces or a second object included.
C17_ProseChangesNothing ==
  \A r \in Reqs : \A k \in 1..Len(req[r].results) :
    (/\ FromReplyTexts(r, k)
     /\ WrappingOf(r, k) \in {"prose", "prose with braces", "second object"}
     /\ IsObjectText(BaseOf(r, k))) =>
      req[r].results[k] =
        VerdictOfText(RuleAt(req[r].parsedRules, k - 1), BaseOf(r, k))

\* the message of the error a failed call raised, before the catch block
OwnMessage(o) ==
  IF o.kind = "reject" THEN o.message
  ELSE IF ~o.ok THEN UpstreamError(o.body).message
  ELSE EnvelopeContent(o.body).message

\* C18: a failed call is classified by its kind: a 401 response gives
\* "Invalid API key", a 429 response "Rate limit exceeded", an exhausted
\* quota "API quota exceeded", and every other failure keeps its own message.
C18_ClassifiedByKind ==
  \A r \in Reqs : \A k \in Settled(r) :
    FailedCall(OutcomeAt(r, k)) =>
      req[r].results[k].reasoning =
        CASE OutcomeAt(r, k).status = 401 -> "Invalid API key"
          [] OutcomeAt(r, k).status = 429 -> "Rate limit exceeded"
          [] OutcomeAt(r, k) = QuotaExhausted -> "API quota exceeded"
          [] OTHER -> OwnMessage(OutcomeAt(r, k))

\* C19: in every Verdict recorded, from a parsed reply, from the parse
\* fallback or from the handler's catch, evidence and reasoning are at most
\* 200 characters long.
C19_FieldsBounded ==
  \A r \in Reqs : \A k \in 1..Len(req[r].results) :
    /\ Len(req[r].results[k].evidence) <= MaxFieldLen
    /\ Len(req[r].results[k].reasoning) <= MaxFieldLen

(***************************************************************************)
(* Properties of two concurrent requests (pair specification)              *)
(***************************************************************************)
\* the request stored a document and has not answered yet
InFlight(q) == q.pc \notin {"idle", "done"} /\ q.hasFile

\* C20: the stored document of a request is its own: no two requests in
\* flight have the same storage path, the text extraction of a request reads
\* the bytes that request uploaded, and it finds its file.
C20_StoragePathsExclusive ==
  \A r \in Reqs :
    /\ \A o \in Reqs \ {r} :
         (InFlight(req[r]) /\ InFlight(req[o])) => req[r].path # req[o].path
    /\ req[r].readFrom \in {0, r}
    /\ \A n \in 1..Len(req[r].responses) :
         req[r].responses[n].error #
           "ENOENT: no such file or directory, open '" \o req[r].path \o "'"

====
